---- MODULE Spec2Model ----
(***************************************************************************)
(* iRacingSetupCopier: the two variants of the setup copier (src/main.py   *)
(* and src/setupCopier.py) as one state machine.  A run of main()          *)
(* enumerates the destination folders, enumerates the .sto files of the    *)
(* working directory, and copy_setup_files copies each file into the       *)
(* folder its car code resolves to, accumulating successes and errors.     *)
(*                                                                         *)
(* Strings are sequences of one-character strings, so that split('_'),     *)
(* lower() and the substring test `in` are computed as Python computes     *)
(* them.  A file is named by its stem (the name is the stem plus ".sto").  *)
(***************************************************************************)
EXTENDS Naturals, Sequences, FiniteSets, TLC

VARIABLES
    variant,        \* "main" (src/main.py) or "setupCopier" (src/setupCopier.py)
    rootExists,     \* <home>/Documents/iRacing/setups exists
    folders,        \* its subdirectories, in iterdir() order (folder names)
    files,          \* the .sto files of the working directory, in iterdir() order (stems)
    aliasTable,     \* iracing-folders.json: [present, pairs: a sequence of <<key, value>>]
    denied,         \* folders this process cannot create files in
    readonly,       \* source files whose permission bits deny this process writing
    pc,             \* position of main()
    run,            \* 1 or 2: the program is run twice in a row
    setup_folders,  \* main(): result of get_iracing_setup_folders()
    setup_files,    \* main(): result of get_current_setup_files()
    mapping,        \* copy_setup_files: folder_mapping (main) / folder_map (setupCopier)
    idx,            \* copy_setup_files: position of the for loop in setup_files
    copied_files,   \* copy_setup_files: the success accumulator
    errors,         \* copy_setup_files: the error accumulator
    dest,           \* content of the destination folders
    attempts,       \* every call of shutil.copy2 made so far in this run
    first           \* what the first run left: its dest, copied_files and errors

vars == <<variant, rootExists, folders, files, aliasTable, denied, readonly, pc, run,
          setup_folders, setup_files, mapping, idx, copied_files, errors, dest,
          attempts, first>>

env == <<variant, rootExists, folders, files, aliasTable, denied, readonly>>

(***************************************************************************)
(* Bounds of the model.                                                    *)
(***************************************************************************)
MaxFiles == 2
MaxFolders == 2
\* unwritable folders and read-only source files, together
MaxFaults == 1

(***************************************************************************)
(* Strings.                                                                *)
(***************************************************************************)
Lower(c) == IF c = "A" THEN "a" ELSE IF c = "B" THEN "b" ELSE IF c = "X" THEN "x" ELSE c

\* str.lower()
LowerStr(s) == [i \in 1..Len(s) |-> Lower(s[i])]

\* position of the first '_' of s, or 0
FirstSep(s) == IF \E i \in 1..Len(s) : s[i] = "_"
               THEN CHOOSE i \in 1..Len(s) : s[i] = "_" /\ \A j \in 1..(i - 1) : s[j] # "_"
               ELSE 0

RECURSIVE Split(_)
\* str.split('_'): the segments between the delimiters, empty segments kept
Split(s) == IF FirstSep(s) = 0 THEN <<s>>
            ELSE <<SubSeq(s, 1, FirstSep(s) - 1)>> \o Split(SubSeq(s, FirstSep(s) + 1, Len(s)))

\* Python's `sub in s` on strings
Contains(sub, s) == \E i \in 0..(Len(s) - Len(sub)) : SubSeq(s, i + 1, i + Len(sub)) = sub

\* dict assignment d[k] = v
Put(d, k, v) == [x \in (DOMAIN d) \cup {k} |-> IF x = k THEN v ELSE d[x]]

EmptyDict == [x \in {} |-> x]

(***************************************************************************)
(* The inputs the model draws from.                                        *)
(***************************************************************************)
\* stems of .sto files: VRS_X_AB_1, VRS_X_a_1, X_ab, VRS_X__1, VRS_X_bb
StemAB == <<"X", "_", "x", "_", "A", "B", "_", "x">>
StemA == <<"X", "_", "x", "_", "a", "_", "x">>
StemBad == <<"X", "_", "a", "b">>
StemEmpty == <<"X", "_", "x", "_", "_", "x">>
StemBB == <<"X", "_", "x", "_", "b", "b">>
Stems == {StemAB, StemA, StemBad, StemEmpty, StemBB}

FolderNames == {<<"A", "b">>, <<"a">>, <<"B", "a">>}

\* contents of iracing-folders.json, as the pairs of the JSON object in file order
AliasPairs == {
    <<>>,
    << <<<<"b", "b">>, <<"B", "a">>>> >>,
    << <<<<"a">>, <<"A", "b">>>>, <<<<>>, <<"a">>>> >>,
    << <<<<"A", "b">>, <<"b", "b">>>> >> }

\* the sequences of distinct elements of S of length at most n
DistinctSeqs(S, n) ==
    UNION {{s \in [1..k -> S] : \A i, j \in 1..k : i # j => s[i] # s[j]} : k \in 0..n}

Range(s) == {s[i] : i \in 1..Len(s)}

AliasTables == {[present |-> TRUE, pairs |-> t] : t \in AliasPairs}

AliasAbsent == [present |-> FALSE, pairs |-> <<>>]

(***************************************************************************)
(* extract_car_code: the third '_'-separated segment, lower-cased; the     *)
(* IndexError of a stem with fewer than three segments becomes ValueError. *)
(***************************************************************************)
InvalidFormat(filename) == [kind |-> "invalid", file |-> filename, detail |-> <<>>]

\* faulty variant: the car code taken from the second segment, split('_')[1]
extract_car_code_second(filename) ==
    LET parts == Split(filename)
    IN  IF Len(parts) >= 2
        THEN [ok |-> TRUE, code |-> LowerStr(parts[2]), error |-> InvalidFormat(filename)]
        ELSE [ok |-> FALSE, code |-> <<>>, error |-> InvalidFormat(filename)]

extract_car_code(filename) ==
    LET parts == Split(filename)
    IN  IF Len(parts) >= 3
        THEN [ok |-> TRUE, code |-> LowerStr(parts[3]), error |-> InvalidFormat(filename)]
        ELSE [ok |-> FALSE, code |-> <<>>, error |-> InvalidFormat(filename)]

(***************************************************************************)
(* main.py: folder_mapping, built from the alias table.                    *)
(***************************************************************************)
RECURSIVE PutValues(_, _)
\* {v.lower(): v for v in car_code_mapping.values()}
PutValues(d, pairs) ==
    IF pairs = <<>> THEN d
    ELSE PutValues(Put(d, LowerStr(Head(pairs)[2]), Head(pairs)[2]), Tail(pairs))

RECURSIVE PutKeys(_, _)
\* .update({k.lower(): v for k, v in car_code_mapping.items() if k})
PutKeys(d, pairs) ==
    IF pairs = <<>> THEN d
    ELSE PutKeys(IF Head(pairs)[1] # <<>>
                 THEN Put(d, LowerStr(Head(pairs)[1]), Head(pairs)[2])
                 ELSE d,
                 Tail(pairs))

FolderMapping(pairs) == PutKeys(PutValues(EmptyDict, pairs), pairs)

(***************************************************************************)
(* setupCopier.py: folder_map, from lower-cased folder name to the folder  *)
(* (its position in setup_folders).                                        *)
(***************************************************************************)
RECURSIVE PutFolders(_, _, _)
PutFolders(d, sf, i) ==
    IF i > Len(sf) THEN d ELSE PutFolders(Put(d, LowerStr(sf[i]), i), sf, i + 1)

FolderMap(sf) == PutFolders(EmptyDict, sf, 1)

(***************************************************************************)
(* Resolution of a car code to a folder: a position in setup_folders, or   *)
(* NoFolder for Python's None.                                             *)
(***************************************************************************)
NoFolder == 0

\* next((folder for folder in sf if folder.name in matching), None)
FirstFolder(sf, matching) ==
    IF \E i \in 1..Len(sf) : sf[i] \in matching
    THEN CHOOSE i \in 1..Len(sf) : sf[i] \in matching /\ \A j \in 1..(i - 1) : sf[j] \notin matching
    ELSE NoFolder

\* main.py: the lookup in folder_mapping
AliasMatch(m, sf, car_code) ==
    IF LowerStr(car_code) \in DOMAIN m
    THEN LET folder_name == m[LowerStr(car_code)]
         IN  FirstFolder(sf, {name \in Range(sf) : LowerStr(name) = LowerStr(folder_name)})
    ELSE NoFolder

\* main.py: the partial match
PartialMatch(sf, car_code) ==
    FirstFolder(sf, {name \in Range(sf) : Contains(LowerStr(car_code), LowerStr(name))})

ResolveMain(m, sf, car_code) ==
    IF AliasMatch(m, sf, car_code) # NoFolder
    THEN AliasMatch(m, sf, car_code)
    ELSE PartialMatch(sf, car_code)

\* setupCopier.py: folder_map.get(car_code)
ResolveCopier(m, car_code) == IF car_code \in DOMAIN m THEN m[car_code] ELSE NoFolder

Resolve(m, sf, car_code) ==
    IF variant = "main" THEN ResolveMain(m, sf, car_code) ELSE ResolveCopier(m, car_code)

(***************************************************************************)
(* shutil.copy2(setup_file, matching_folder / setup_file.name): copyfile   *)
(* opens the destination for writing, truncating an existing file, then    *)
(* copystat gives it the source's permission bits and times.  The open     *)
(* fails in a folder the process cannot write to, and on an existing       *)
(* destination file whose permission bits deny writing.                    *)
(***************************************************************************)
DestFile(folder, name) == [folder |-> folder, name |-> name, data |-> name,
                           ro |-> name \in readonly]

\* a file the user keeps in a destination folder: not one of the working
\* directory's setup files
OtherName == <<"k", "e", "p", "t">>

OtherFile(folder) == [folder |-> folder, name |-> OtherName,
                      data |-> <<"o", "l", "d">>, ro |-> FALSE]

\* what the destination folders hold before the program is first run
Present(fs) == {OtherFile(fs[i]) : i \in 1..Len(fs)}

Existing(d, folder, name) == {e \in d : e.folder = folder /\ e.name = name}

CopyFailure(d, folder, name) ==
    IF folder \in denied THEN <<"E", "A", "C", "C", "E", "S", "_", "d", "i", "r">>
    ELSE IF \E e \in Existing(d, folder, name) : e.ro
         THEN <<"E", "A", "C", "C", "E", "S", "_", "f", "i", "l", "e">>
         ELSE <<>>

\* faulty variant: the folder is emptied before the file is written
Copy2Emptying(d, folder, name) ==
    IF CopyFailure(d, folder, name) # <<>> THEN d
    ELSE {e \in d : e.folder # folder} \cup {DestFile(folder, name)}

Copy2(d, folder, name) ==
    IF CopyFailure(d, folder, name) # <<>> THEN d
    ELSE (d \ Existing(d, folder, name)) \cup {DestFile(folder, name)}

(***************************************************************************)
(* One iteration of the for loop of copy_setup_files, try and except       *)
(* clauses included: what it appends to each accumulator, the destination  *)
(* content it leaves and the copy2 call it made.                           *)
(***************************************************************************)
NoMatch(car_code, name) == [kind |-> "nomatch", file |-> name, detail |-> car_code]

CopyError(name, cause) == [kind |-> "copy", file |-> name, detail |-> cause]

Effect(copied, errs, d, att) == [copied |-> copied, errors |-> errs, dest |-> d, attempts |-> att]

\* faulty variant: except ValueError: pass
OnValueErrorSwallowed(e, d) == Effect(<<>>, <<>>, d, <<>>)

\* except ValueError as e: errors.append(str(e))
OnValueError(e, d) == Effect(<<>>, <<e>>, d, <<>>)

\* except Exception as e: errors.append(f"Error copying {setup_file.name}: {str(e)}")
OnException(name, folder, cause, d) ==
    Effect(<<>>, <<CopyError(name, cause)>>, d, <<<<name, folder>>>>)

\* faulty variant: a file without a folder is skipped with `continue`
OnNoMatchSkipped(car_code, name, d) == Effect(<<>>, <<>>, d, <<>>)

\* else: errors.append(f"No matching folder found for car code ...")
OnNoMatch(car_code, name, d) == Effect(<<>>, <<NoMatch(car_code, name)>>, d, <<>>)

\* copied_files.append(f"{setup_file.name} -> {matching_folder.name}")
OnCopied(name, folder, d) ==
    Effect(<<<<name, folder>>>>, <<>>, Copy2(d, folder, name), <<<<name, folder>>>>)

Iteration(setup_file, m, sf, d) ==
    LET r == extract_car_code(setup_file)
        matching_folder == Resolve(m, sf, r.code)
    IN  IF ~r.ok THEN OnValueError(r.error, d)
        ELSE IF matching_folder = NoFolder THEN OnNoMatch(r.code, setup_file, d)
        ELSE IF CopyFailure(d, sf[matching_folder], setup_file) # <<>>
             THEN OnException(setup_file, sf[matching_folder],
                              CopyFailure(d, sf[matching_folder], setup_file), d)
             ELSE OnCopied(setup_file, sf[matching_folder], d)

(***************************************************************************)
(* The state after construction: the environment of the run is chosen,     *)
(* main() has not started.                                                 *)
(***************************************************************************)
NoRun == [pc |-> "none", dest |-> {}, copied_files |-> <<>>, errors |-> <<>>]

Init ==
    /\ variant \in {"main", "setupCopier"}
    /\ rootExists \in BOOLEAN
    /\ folders \in (IF rootExists THEN DistinctSeqs(FolderNames, MaxFolders) ELSE {<<>>})
    /\ files \in DistinctSeqs(Stems, MaxFiles)
    /\ aliasTable \in (IF variant = "main" THEN AliasTables \cup {AliasAbsent}
                                          ELSE {AliasAbsent})
    /\ denied \in {s \in SUBSET Range(folders) : Cardinality(s) <= MaxFaults}
    /\ readonly \in {s \in SUBSET Range(files) :
                        Cardinality(s) + Cardinality(denied) <= MaxFaults}
    /\ pc = "start"
    /\ run = 1
    /\ setup_folders = <<>>
    /\ setup_files = <<>>
    /\ mapping = EmptyDict
    /\ idx = 0
    /\ copied_files = <<>>
    /\ errors = <<>>
    /\ dest = Present(folders)
    /\ attempts = <<>>
    /\ first = NoRun

(***************************************************************************)
(* main()                                                                  *)
(***************************************************************************)
\* faulty variant: no existence check, a missing directory lists as empty
get_iracing_setup_folders_unchecked ==
    /\ pc = "start"
    /\ setup_folders' = folders
    /\ pc' = "files"
    /\ UNCHANGED <<env, run, setup_files, mapping, idx, copied_files, errors, dest,
                   attempts, first>>

\* get_iracing_setup_folders(): raises FileNotFoundError, which main() catches
\* and reports as "Erro fatal", when the setups directory does not exist
get_iracing_setup_folders ==
    /\ pc = "start"
    /\ IF rootExists
       THEN /\ setup_folders' = folders
            /\ pc' = "files"
       ELSE /\ setup_folders' = setup_folders
            /\ pc' = "fatal"
    /\ UNCHANGED <<env, run, setup_files, mapping, idx, copied_files, errors, dest,
                   attempts, first>>

\* get_current_setup_files(), and main()'s return when there is no file
get_current_setup_files ==
    /\ pc = "files"
    /\ setup_files' = files
    /\ pc' = IF files = <<>> THEN "warned" ELSE "copy"
    /\ UNCHANGED <<env, run, setup_folders, mapping, idx, copied_files, errors, dest,
                   attempts, first>>

\* copy_setup_files up to its for loop: the accumulators and the lookup table.
\* main.py opens iracing-folders.json outside any try: a missing file raises
\* out of copy_setup_files into main()'s except clause.
EnterCopy ==
    /\ pc = "copy"
    /\ copied_files' = <<>>
    /\ errors' = <<>>
    /\ attempts' = <<>>
    /\ IF variant = "main"
       THEN IF aliasTable.present
            THEN /\ mapping' = FolderMapping(aliasTable.pairs)
                 /\ idx' = 1
                 /\ pc' = "loop"
            ELSE /\ mapping' = mapping
                 /\ idx' = idx
                 /\ pc' = "fatal"
       ELSE /\ mapping' = FolderMap(setup_folders)
            /\ idx' = 1
            /\ pc' = "loop"
    /\ UNCHANGED <<env, run, setup_folders, setup_files, dest, first>>

\* faulty variant: results inserted at the front of the accumulators
StepPrepend(it) ==
    /\ copied_files' = it.copied \o copied_files
    /\ errors' = it.errors \o errors
    /\ dest' = it.dest
    /\ attempts' = attempts \o it.attempts
    /\ idx' = idx + 1

\* the state change of one loop iteration with effect it
Step(it) ==
    /\ copied_files' = copied_files \o it.copied
    /\ errors' = errors \o it.errors
    /\ dest' = it.dest
    /\ attempts' = attempts \o it.attempts
    /\ idx' = idx + 1

\* faulty variant: no `except Exception`, a failing copy2 raises out of the loop
\* into main()'s except clause
ProcessFileRaising ==
    /\ pc = "loop"
    /\ idx <= Len(setup_files)
    /\ LET it == Iteration(setup_files[idx], mapping, setup_folders, dest)
       IN  IF it.attempts # <<>> /\ it.copied = <<>>
           THEN /\ attempts' = attempts \o it.attempts
                /\ pc' = "fatal"
                /\ UNCHANGED <<idx, copied_files, errors, dest>>
           ELSE /\ Step(it)
                /\ pc' = pc
    /\ UNCHANGED <<env, run, setup_folders, setup_files, mapping, first>>

\* one iteration of `for setup_file in setup_files`
ProcessFile ==
    /\ pc = "loop"
    /\ idx <= Len(setup_files)
    /\ Step(Iteration(setup_files[idx], mapping, setup_folders, dest))
    /\ UNCHANGED <<env, pc, run, setup_folders, setup_files, mapping, first>>

\* return copied_files, errors; main() builds the alert from the two sequences
\* and shows it
ReturnResults ==
    /\ pc = "loop"
    /\ idx > Len(setup_files)
    /\ pc' = "done"
    /\ UNCHANGED <<env, run, setup_folders, setup_files, mapping, idx, copied_files,
                   errors, dest, attempts, first>>

Ended == pc \in {"done", "warned", "fatal"}

\* the program is started again in the same environment
RunAgain ==
    /\ Ended
    /\ run = 1
    /\ run' = 2
    /\ first' = [pc |-> pc, dest |-> dest, copied_files |-> copied_files,
                 errors |-> errors]
    /\ pc' = "start"
    /\ setup_folders' = <<>>
    /\ setup_files' = <<>>
    /\ mapping' = EmptyDict
    /\ idx' = 0
    /\ copied_files' = <<>>
    /\ errors' = <<>>
    /\ attempts' = <<>>
    /\ UNCHANGED <<env, dest>>

Next ==
    \/ get_iracing_setup_folders
    \/ get_current_setup_files
    \/ EnterCopy
    \/ ProcessFile
    \/ ReturnResults
    \/ RunAgain

Spec == Init /\ [][Next]_vars

(***************************************************************************)
(* Vocabulary of the properties.                                           *)
(***************************************************************************)
InCopy == pc \in {"loop", "done"}

\* the files the loop has finished with
Processed == IF InCopy THEN 1..(idx - 1) ELSE {}

Successes(name) == {j \in 1..Len(copied_files) : copied_files[j][1] = name}

Errors(name) == {j \in 1..Len(errors) : errors[j].file = name}

Attempts(name) == {j \in 1..Len(attempts) : attempts[j][1] = name}

\* the segments of each stem, and the key of each stem that has three
Segments == [name \in Stems |-> Split(name)]

WellFormed(name) == Len(Segments[name]) >= 3

Keys == [name \in Stems |-> IF WellFormed(name) THEN LowerStr(Segments[name][3]) ELSE <<>>]

Key(name) == Keys[name]

\* the folder names that equal a key case-insensitively, and those that contain it
Equals == [name \in Stems |-> {f \in FolderNames : LowerStr(f) = Keys[name]}]

Holds == [name \in Stems |-> {f \in FolderNames : Contains(Keys[name], LowerStr(f))}]

ExactFolders(name) == Range(setup_folders) \cap Equals[name]

\* position of a file in the input list (the names of a directory are distinct)
Pos(name) == CHOOSE i \in 1..Len(setup_files) : setup_files[i] = name

\* C1: every file the loop has finished with has exactly one result, a success
\* or an error and never both, so that on return the two sequences together
\* have as many entries as there are input files.
C1_OneResultPerFile ==
    InCopy =>
        /\ \A i \in Processed :
               Cardinality(Successes(setup_files[i])) + Cardinality(Errors(setup_files[i])) = 1
        /\ Len(copied_files) + Len(errors) = idx - 1
        /\ pc = "done" => Len(copied_files) + Len(errors) = Len(setup_files)

\* a returned batch with a success and a failed copy
C1_Witness ==
    /\ pc = "done"
    /\ Len(setup_files) = MaxFiles
    /\ Len(copied_files) >= 1
    /\ \E j \in 1..Len(errors) : errors[j].kind = "copy"

\* the keys iracing-folders.json gives an alias for
AliasKeys == IF variant = "main" /\ aliasTable.present
             THEN {LowerStr(aliasTable.pairs[j][1]) : j \in 1..Len(aliasTable.pairs)}
             ELSE {}

\* C2: a file whose key equals a folder's name case-insensitively is copied
\* into that very folder (the copy is attempted there, and recorded as a
\* success unless the copy itself raised), whatever the other folders and
\* their order.  Stated for the keys the alias table has no entry for, where
\* the alias lookup of the priority chain cannot take the file elsewhere.
C2_ExactMatchWins ==
    \A i \in Processed :
        LET name == setup_files[i]
        IN  (WellFormed(name) /\ ExactFolders(name) # {} /\ Key(name) \notin AliasKeys) =>
                /\ \E j \in Attempts(name) : attempts[j][2] \in ExactFolders(name)
                /\ \A j \in Successes(name) : copied_files[j][2] \in ExactFolders(name)
                /\ Successes(name) # {} \/ \E j \in Errors(name) : errors[j].kind = "copy"

\* the priority chain: alias lookup, then exact match, then first substring match
ExactMatch(sf, car_code) ==
    FirstFolder(sf, {name \in Range(sf) : LowerStr(name) = LowerStr(car_code)})

Chain(pairs, sf, car_code) ==
    IF AliasMatch(FolderMapping(pairs), sf, car_code) # NoFolder
    THEN AliasMatch(FolderMapping(pairs), sf, car_code)
    ELSE IF ExactMatch(sf, car_code) # NoFolder
         THEN ExactMatch(sf, car_code)
         ELSE PartialMatch(sf, car_code)

\* C3: main.py resolves every well-formed file by the chain alias, exact,
\* substring: the folder it copies into is the chain's folder, and it reports
\* no match only when the chain resolves nothing.
C3_PriorityChain ==
    variant = "main" =>
        \A i \in Processed :
            LET name == setup_files[i]
                want == Chain(aliasTable.pairs, setup_folders, Key(name))
            IN  WellFormed(name) =>
                    IF want = NoFolder
                    THEN Attempts(name) = {}
                    ELSE \E j \in Attempts(name) : attempts[j][2] = setup_folders[want]

\* C4: with iracing-folders.json absent, a run of main.py that found the
\* setups directory and some files still processes every file and returns.
C4_AbsentTableTolerated ==
    (variant = "main" /\ ~aliasTable.present /\ rootExists /\ files # <<>> /\ Ended) =>
        /\ pc = "done"
        /\ idx = Len(setup_files) + 1
        /\ Len(copied_files) + Len(errors) = Len(setup_files)

\* C5: a file whose stem has fewer than three segments gets exactly one error,
\* the invalid-format one, no copy is attempted for it, no destination folder
\* holds a file of its name, and the batch goes on to its end.
C5_InvalidFormat ==
    /\ \A i \in Processed :
           LET name == setup_files[i]
           IN  ~WellFormed(name) =>
                   /\ Successes(name) = {}
                   /\ Cardinality(Errors(name)) = 1
                   /\ \A j \in Errors(name) : errors[j] = InvalidFormat(name)
                   /\ Attempts(name) = {}
                   /\ \A e \in dest : e.name # name
    /\ pc = "done" => idx = Len(setup_files) + 1
    /\ pc = "fatal" => idx = 0

\* an invalid file first, and the file after it copied
C5_Witness ==
    /\ pc = "done"
    /\ Len(setup_files) = MaxFiles
    /\ ~WellFormed(setup_files[1])
    /\ errors = <<InvalidFormat(setup_files[1])>>
    /\ Successes(setup_files[MaxFiles]) # {}

\* a folder matches a key by some strategy: through an alias of the table,
\* exactly, or by containing it
MatchesAny(name) ==
    \/ Range(setup_folders) \cap (Equals[name] \cup Holds[name]) # {}
    \/ /\ variant = "main"
       /\ \E j \in 1..Len(aliasTable.pairs) :
              /\ LowerStr(aliasTable.pairs[j][1]) = Key(name)
              /\ \E f \in Range(setup_folders) :
                     LowerStr(aliasTable.pairs[j][2]) = LowerStr(f)

\* C6: a well-formed file whose key matches no folder by any strategy gets
\* exactly one error, the no-match one naming its key and the file; no copy is
\* attempted for it and no destination folder holds a file of its name.
C6_NoMatchIsAnError ==
    \A i \in Processed :
        LET name == setup_files[i]
        IN  (WellFormed(name) /\ ~MatchesAny(name)) =>
                /\ Successes(name) = {}
                /\ Cardinality(Errors(name)) = 1
                /\ \A j \in Errors(name) : errors[j] = NoMatch(Key(name), name)
                /\ Attempts(name) = {}
                /\ \A e \in dest : e.name # name

\* a file without a matching folder in a run that has folders
C6_Witness ==
    /\ pc = "done"
    /\ setup_folders # <<>>
    /\ \E j \in 1..Len(errors) : errors[j].kind = "nomatch"

\* the copies that raised: attempted and not recorded as a success
Failed(name) == Attempts(name) # {} /\ Successes(name) = {}

\* what the loop does with a file on its own, whatever happened to the others:
\* the destination of a file is touched by no other file of the batch
Alone(name) ==
    Iteration(name, mapping, setup_folders, IF run = 1 THEN Present(folders) ELSE first.dest)

\* C7: a copy that raises is recorded as one copy-failure error carrying the
\* cause and is not propagated: the batch is never aborted, and every file
\* processed after it gets the result it gets on its own.
C7_FailureIsolated ==
    /\ \A i \in Processed :
           LET name == setup_files[i]
           IN  Failed(name) =>
                   /\ Cardinality(Errors(name)) = 1
                   /\ \A j \in Errors(name) :
                          errors[j].kind = "copy" /\ errors[j].detail # <<>>
                   /\ \A k \in Processed :
                          k > i =>
                              LET later == setup_files[k]
                                  alone == Alone(later)
                              IN  /\ Cardinality(Successes(later)) = Len(alone.copied)
                                  /\ Cardinality(Errors(later)) = Len(alone.errors)
                                  /\ \A j \in Successes(later) :
                                         copied_files[j] = alone.copied[1]
                                  /\ \A j \in Errors(later) : errors[j] = alone.errors[1]
    /\ pc = "done" => idx = Len(setup_files) + 1
    /\ pc = "fatal" => attempts = <<>>

\* a failed copy first, and the file after it copied
C7_Witness ==
    /\ pc = "done"
    /\ Len(setup_files) = MaxFiles
    /\ Failed(setup_files[1])
    /\ Successes(setup_files[MaxFiles]) # {}

\* C8: when the setups directory does not exist the run ends in main()'s
\* fatal report right after get_iracing_setup_folders: no source file is
\* enumerated, the copy loop is never entered, no copy is attempted and no
\* destination content exists or changes.
C8_MissingRootIsFatal ==
    ~rootExists =>
        /\ pc \in {"start", "fatal"}
        /\ setup_files = <<>>
        /\ idx = 0
        /\ attempts = <<>>
        /\ copied_files = <<>>
        /\ dest = {}

\* the run has ended fatally with files waiting in the working directory
C8_Witness == ~rootExists /\ pc = "fatal" /\ files # <<>>

\* the classification of a run: which files succeeded, into which folder, and
\* which files failed with which kind of error
Classes(copied, errs) ==
    <<copied, [j \in 1..Len(errs) |-> <<errs[j].kind, errs[j].file>>]>>

\* C9: the second of two runs in the same environment leaves the destination
\* folders as the first left them and classifies every file as the first did.
C9_Idempotent ==
    (run = 2 /\ pc = "done") =>
        /\ dest = first.dest
        /\ Classes(copied_files, errors) = Classes(first.copied_files, first.errors)

\* C10: each accumulator lists its files in input order, and every entry is
\* of a file the loop has already finished with.
C10_InputOrder ==
    InCopy =>
        /\ \A j, k \in 1..Len(copied_files) :
               j < k => Pos(copied_files[j][1]) < Pos(copied_files[k][1])
        /\ \A j, k \in 1..Len(errors) :
               j < k => Pos(errors[j].file) < Pos(errors[k].file)
        /\ \A j \in 1..Len(copied_files) : Pos(copied_files[j][1]) < idx
        /\ \A j \in 1..Len(errors) : Pos(errors[j].file) < idx

\* a returned batch with two entries in one accumulator
C10_Witness ==
    /\ pc = "done"
    /\ Len(copied_files) >= 2 \/ Len(errors) >= 2

\* the files the program has put into the destination folders
Written == dest \ Present(folders)

\* C11: the frame of copy_setup_files.  A file of the batch is copied at most
\* once, into one folder of the enumerated set, under its own name and with
\* its own content; the files the folders held before are all still there,
\* unchanged; the working directory and the folder set are as they were
\* enumerated.
C11_Frame ==
    /\ \A e \in Written :
           /\ e.folder \in Range(folders)
           /\ e.name \in Range(files)
           /\ e = DestFile(e.folder, e.name)
           /\ \A o \in Written : o.name = e.name => o = e
    /\ \A i \in Processed :
           /\ Cardinality(Attempts(setup_files[i])) <= 1
           /\ \A j \in Attempts(setup_files[i]) : attempts[j][2] \in Range(setup_folders)
           /\ \A j \in Successes(setup_files[i]) :
                  DestFile(copied_files[j][2], setup_files[i]) \in dest
    /\ Present(folders) \subseteq dest
    /\ \A e \in dest : e.name = OtherName => e \in Present(folders)
    /\ InCopy => setup_files = files /\ setup_folders = folders

\* two files copied into the same folder, beside the file it held before
C11_Witness ==
    /\ pc = "done"
    /\ Len(copied_files) = MaxFiles
    /\ copied_files[1][2] = copied_files[MaxFiles][2]
    /\ OtherFile(copied_files[1][2]) \in dest

====
